---- MODULE Spec2Model ----
\* Model of ec2-ssh: one invocation of main() -> ssh(), from the configuration
\* dump to the process exit.  Strings are sequences of atoms (a " " atom is a
\* space), so that splitting and joining a line do real work.
EXTENDS Integers, Sequences, FiniteSets, TLC

VARIABLES
    args,        \* os.Args[1:], the argument vector given to the wrapper
    exists,      \* the private-key files for which os.Stat finds a file
    pc,          \* position of the invocation inside main()/ssh()
    dump,        \* lines written by `ssh -G` (what the scanner yields)
    options,     \* map[string][]string built by sshOptions
    instance,    \* *instanceInfo of ssh()
    pk,          \* path returned by existingKey
    publicKey,   \* text returned by getPublicKey
    idx,         \* index in regions of the partition the loop is at
    sweep,       \* state of the region sweep
    results,     \* what setupEC2Instance returned, one entry per iteration
    calls,       \* external calls issued so far, in order
    err,         \* error returned by ssh() to main()
    errPath,     \* the path the message of err is formatted with, <<>> if none
    exitCode,    \* process exit code, Running until the process ends
    printed,     \* number of error messages main() printed
    clientExit,  \* outcome of the final client subprocess
    run,         \* 1 for the first invocation, 2 for a second one after it
    first,       \* what the first invocation consumed and did, for the second
    authorized   \* the keys the instances hold: <<instance ID, OS user, key>>

vars == <<args, exists, pc, dump, options, instance, pk, publicKey, idx,
          sweep, results, calls, err, errPath, exitCode, printed, clientExit,
          run, first, authorized>>

-----------------------------------------------------------------------------
\* Bounds and program constants

MaxRepeat == 2
MaxIds == 3

regions == <<"us-west-1", "us-west-2">>

ExitOK == 0
ExitError == 1
ExitPanic == 2
ExitInterrupted == 130
ExitOther == 255

Running == -1
Nil == "nil"

-----------------------------------------------------------------------------
\* The environment: what the external collaborators can answer

ArgVectors == { <<"box">>, <<"-i", "key", "box">> }

KeyHostname == <<"hostname">>
KeyUser == <<"user">>
KeyIdentityfile == <<"identityfile">>

HomeDir == <<"/home">>
PathTilde == <<"~", "/k1">>
PathSpaced == <<"/my", " ", "k2">>

Paths == { PathTilde, PathSpaced }

LineOf(key, value) == key \o <<" ">> \o value

RECURSIVE SeqsUpTo(_, _)
SeqsUpTo(S, n) ==
    IF n = 0 THEN { <<>> }
    ELSE LET shorter == SeqsUpTo(S, n - 1)
         IN  shorter \cup { Append(s, x) : s \in shorter, x \in S }

Repeat(line, n) == [i \in 1..n |-> line]

IdentityLines(paths) == [i \in 1..Len(paths) |-> LineOf(KeyIdentityfile, paths[i])]

\* The dumps `ssh -G` can print: it always prints `user` and `hostname`, then
\* the `identityfile` lines, in the order OpenSSH prints its options.
Dumps == { Repeat(LineOf(KeyUser, <<"alice">>), nu)
             \o Repeat(LineOf(KeyHostname, <<"box">>), nh)
             \o IdentityLines(ids) :
           nu \in 1..MaxRepeat, nh \in 1..MaxRepeat, ids \in SeqsUpTo(Paths, MaxIds) }

KeyFiles == { HomeDir \o <<"/k1">>, PathSpaced }

PubText(path) == <<"ssh-ed25519">> \o path

Addresses == { "10.0.0.5", "10.0.0.9" }
\* net.Resolver.LookupIP without error: a non-empty list of addresses
LookupAnswers == { <<"10.0.0.5">>, <<"10.0.0.5", "10.0.0.9">>, <<"10.0.0.9", "10.0.0.5">> }

Answer(ok, v) == [ok |-> ok, v |-> v]

I123 == [InstanceId |-> "i-123", PrivateIpAddress |-> "10.0.0.5"]
I456 == [InstanceId |-> "i-456", PrivateIpAddress |-> "10.0.0.9"]
\* DescribeInstances: an error, or the instances of the reservations in order
InventoryAnswers == { Answer(FALSE, <<>>) } \cup
                    { Answer(TRUE, v) : v \in { <<>>, <<I123>>, <<I456>>, <<I456, I123>> } }

\* DescribeInstanceStatus: an error, or the availability zones of InstanceStatuses
StatusAnswers == { Answer(FALSE, <<>>) } \cup
                 { Answer(TRUE, v) : v \in { <<>>, <<"zone-a">>, <<"zone-b", "zone-a">> } }

\* SendSSHPublicKey: an error, Success = false, Success = true
InjectAnswers == { "error", "rejected", "success" }

\* cmd.Run of the final client: it could not be started, or it exited with code
ClientOutcomes == { [started |-> FALSE, code |-> ExitError] } \cup
                  { [started |-> TRUE, code |-> c] : c \in { ExitOK, ExitError, ExitInterrupted, ExitOther } }
NoClient == [started |-> FALSE, code |-> Running]
NoAnswer == Answer(FALSE, <<>>)
NoRun == [dump |-> <<>>, ip |-> "", results |-> <<>>, clientExit |-> NoClient,
          calls |-> <<>>, exitCode |-> Running]
NoInstance == [username |-> <<>>, host |-> <<>>, ipAddress |-> ""]

-----------------------------------------------------------------------------
\* Pure functions of ssh.go

\* strings.Split(s, " "): the pieces between the space atoms, at least one piece
RECURSIVE SplitFrom(_, _, _)
SplitFrom(s, cur, acc) ==
    IF s = <<>> THEN Append(acc, cur)
    ELSE IF Head(s) = " " THEN SplitFrom(Tail(s), <<>>, Append(acc, cur))
    ELSE SplitFrom(Tail(s), Append(cur, Head(s)), acc)

Split(s) == SplitFrom(s, <<>>, <<>>)

\* strings.Join(parts, " ")
RECURSIVE Join(_)
Join(parts) ==
    IF parts = <<>> THEN <<>>
    ELSE IF Len(parts) = 1 THEN parts[1]
    ELSE parts[1] \o <<" ">> \o Join(Tail(parts))

\* m[k] of a Go map of slices: the nil (empty) slice for a missing key
Lookup(m, k) == IF k \in DOMAIN m THEN m[k] ELSE <<>>

\* one iteration of the scanner loop of sshOptions
scanLine(res, line) ==
    LET parts == Split(line)
        key == parts[1]
    IN  IF key \notin DOMAIN res
        THEN res @@ (key :> <<>>)
        ELSE [res EXCEPT ![key] = Append(@, Join(Tail(parts)))]

RECURSIVE scanLines(_, _)
scanLines(res, lines) ==
    IF lines = <<>> THEN res
    ELSE scanLines(scanLine(res, Head(lines)), Tail(lines))

\* the map sshOptions returns for a dump
parseOptions(lines) == scanLines(<<>>, lines)

\* expandHomeDirectoryTilde; userOk: user.Current() succeeded
expandHomeDirectoryTilde(path, userOk) ==
    IF Len(path) = 0 \/ path[1] # "~" THEN [path |-> path, err |-> Nil]
    ELSE IF ~userOk THEN [path |-> <<>>, err |-> "user-current"]
    ELSE [path |-> HomeDir \o Tail(path), err |-> Nil]

\* existingKey returning the first candidate without looking at the filesystem
RECURSIVE existingKeyNoStat(_, _, _)
existingKeyNoStat(paths, present, userOk) ==
    IF paths = <<>> THEN [path |-> <<>>, err |-> "cannot find any ssh key"]
    ELSE LET e == expandHomeDirectoryTilde(Head(paths), userOk)
         IN  IF e.err # Nil THEN [path |-> <<>>, err |-> e.err]
             ELSE [path |-> e.path, err |-> Nil]

\* existingKey preferring the later candidates
RECURSIVE existingKeyLast(_, _, _)
existingKeyLast(paths, present, userOk) ==
    IF paths = <<>> THEN [path |-> <<>>, err |-> "cannot find any ssh key"]
    ELSE LET e == expandHomeDirectoryTilde(Head(paths), userOk)
             rest == existingKeyLast(Tail(paths), present, userOk)
         IN  IF e.err # Nil THEN [path |-> <<>>, err |-> e.err]
             ELSE IF rest.err = Nil THEN rest
             ELSE IF e.path \notin present THEN rest
             ELSE [path |-> e.path, err |-> Nil]

\* existingKey over the files `present`
RECURSIVE existingKey(_, _, _)
existingKey(paths, present, userOk) ==
    IF paths = <<>> THEN [path |-> <<>>, err |-> "cannot find any ssh key"]
    ELSE LET e == expandHomeDirectoryTilde(Head(paths), userOk)
         IN  IF e.err # Nil THEN [path |-> <<>>, err |-> e.err]
             ELSE IF e.path \notin present THEN existingKey(Tail(paths), present, userOk)
             ELSE [path |-> e.path, err |-> Nil]

\* findEC2Instance returning the first instance of the response without
\* comparing its private address
firstMatchAny(insts, ip) ==
    IF insts = <<>> THEN <<>> ELSE <<Head(insts)>>

\* ssh() returning the error of getPublicKey as it is
publicKeyErrorRaw(private) ==
    [msg |-> "open: no such file or directory", path |-> private \o <<".pub">>]

\* the error ssh() makes of a failed getPublicKey: the format string and its
\* argument
publicKeyError(private) ==
    [msg |-> "cannot read the public key %s.pub. If you want to provide a custom key location, use the -i parameter",
     path |-> private]


\* the loop of findEC2Instance over the instances of the response: the
\* pointer returned, <<>> for nil
RECURSIVE firstMatch(_, _)
firstMatch(insts, ip) ==
    IF insts = <<>> THEN <<>>
    ELSE IF Head(insts).PrivateIpAddress = ip THEN <<Head(insts)>>
    ELSE firstMatch(Tail(insts), ip)

Call(op, region, arg) == [op |-> op, region |-> region, arg |-> arg]

\* setupEC2Instance sending the key a second time when the first call fails
setupEC2InstanceRetry(inst, key, region, cfgOk, inv, st, inj) ==
    LET describe == Call("DescribeInstances", region, <<inst.ipAddress>>)
        ec2Instance == firstMatch(inv.v, inst.ipAddress)
        status == Call("DescribeInstanceStatus", region, <<ec2Instance[1].InstanceId>>)
        send == Call("SendSSHPublicKey", region,
                     <<st.v[1], ec2Instance[1].InstanceId, inst.username, key>>)
        R(found, e, panic, cs) == [found |-> found, err |-> e, panic |-> panic, calls |-> cs]
    IN  IF ~cfgOk THEN R(FALSE, "cannot get config for AWS", FALSE, <<>>)
        ELSE IF ~inv.ok THEN R(FALSE, "cannot contact with AWS API", FALSE, <<describe>>)
        ELSE IF ec2Instance = <<>> THEN R(FALSE, Nil, FALSE, <<describe>>)
        ELSE IF ~st.ok THEN R(FALSE, "cannot get the instance status", FALSE, <<describe, status>>)
        ELSE IF st.v = <<>> THEN R(FALSE, Nil, TRUE, <<describe, status>>)
        ELSE IF inj = "error" THEN R(FALSE, "cannot upload the public key", FALSE, <<describe, status, send, send>>)
        ELSE IF inj = "rejected" THEN R(FALSE, "unsuccessful uploaded the public key", FALSE, <<describe, status, send>>)
        ELSE R(TRUE, Nil, FALSE, <<describe, status, send>>)

\* setupEC2Instance taking any answer of SendSSHPublicKey without an error for
\* a success (out.Success not looked at)
setupEC2InstanceNoSuccessFlag(inst, key, region, cfgOk, inv, st, inj) ==
    LET describe == Call("DescribeInstances", region, <<inst.ipAddress>>)
        ec2Instance == firstMatch(inv.v, inst.ipAddress)
        status == Call("DescribeInstanceStatus", region, <<ec2Instance[1].InstanceId>>)
        send == Call("SendSSHPublicKey", region,
                     <<st.v[1], ec2Instance[1].InstanceId, inst.username, key>>)
        R(found, e, panic, cs) == [found |-> found, err |-> e, panic |-> panic, calls |-> cs]
    IN  IF ~cfgOk THEN R(FALSE, "cannot get config for AWS", FALSE, <<>>)
        ELSE IF ~inv.ok THEN R(FALSE, "cannot contact with AWS API", FALSE, <<describe>>)
        ELSE IF ec2Instance = <<>> THEN R(FALSE, Nil, FALSE, <<describe>>)
        ELSE IF ~st.ok THEN R(FALSE, "cannot get the instance status", FALSE, <<describe, status>>)
        ELSE IF st.v = <<>> THEN R(FALSE, Nil, TRUE, <<describe, status>>)
        ELSE IF inj = "error" THEN R(FALSE, "cannot upload the public key", FALSE, <<describe, status, send>>)
        ELSE IF inj = "rejected" THEN R(TRUE, Nil, FALSE, <<describe, status, send>>)
        ELSE R(TRUE, Nil, FALSE, <<describe, status, send>>)

\* setupEC2Instance leaving out the injection for a key the instance holds
setupEC2InstanceSkipAuthorized(inst, key, region, cfgOk, inv, st, inj) ==
    LET describe == Call("DescribeInstances", region, <<inst.ipAddress>>)
        ec2Instance == firstMatch(inv.v, inst.ipAddress)
        status == Call("DescribeInstanceStatus", region, <<ec2Instance[1].InstanceId>>)
        send == Call("SendSSHPublicKey", region,
                     <<st.v[1], ec2Instance[1].InstanceId, inst.username, key>>)
        R(found, e, panic, cs) == [found |-> found, err |-> e, panic |-> panic, calls |-> cs]
    IN  IF ~cfgOk THEN R(FALSE, "cannot get config for AWS", FALSE, <<>>)
        ELSE IF ~inv.ok THEN R(FALSE, "cannot contact with AWS API", FALSE, <<describe>>)
        ELSE IF ec2Instance = <<>> THEN R(FALSE, Nil, FALSE, <<describe>>)
        ELSE IF ~st.ok THEN R(FALSE, "cannot get the instance status", FALSE, <<describe, status>>)
        ELSE IF st.v = <<>> THEN R(FALSE, Nil, TRUE, <<describe, status>>)
        ELSE IF <<ec2Instance[1].InstanceId, inst.username, key>> \in authorized
             THEN R(TRUE, Nil, FALSE, <<describe, status>>)
        ELSE IF inj = "error" THEN R(FALSE, "cannot upload the public key", FALSE, <<describe, status, send>>)
        ELSE IF inj = "rejected" THEN R(FALSE, "unsuccessful uploaded the public key", FALSE, <<describe, status, send>>)
        ELSE R(TRUE, Nil, FALSE, <<describe, status, send>>)

\* setupEC2Instance for one region, given the answers of the environment.
\* panic: the index InstanceStatuses[0] of instanceStatus on an empty list.
setupEC2Instance(inst, key, region, cfgOk, inv, st, inj) ==
    LET describe == Call("DescribeInstances", region, <<inst.ipAddress>>)
        ec2Instance == firstMatch(inv.v, inst.ipAddress)
        status == Call("DescribeInstanceStatus", region, <<ec2Instance[1].InstanceId>>)
        send == Call("SendSSHPublicKey", region,
                     <<st.v[1], ec2Instance[1].InstanceId, inst.username, key>>)
        R(found, e, panic, cs) == [found |-> found, err |-> e, panic |-> panic, calls |-> cs]
    IN  IF ~cfgOk THEN R(FALSE, "cannot get config for AWS", FALSE, <<>>)
        ELSE IF ~inv.ok THEN R(FALSE, "cannot contact with AWS API", FALSE, <<describe>>)
        ELSE IF ec2Instance = <<>> THEN R(FALSE, Nil, FALSE, <<describe>>)
        ELSE IF ~st.ok THEN R(FALSE, "cannot get the instance status", FALSE, <<describe, status>>)
        ELSE IF st.v = <<>> THEN R(FALSE, Nil, TRUE, <<describe, status>>)
        ELSE IF inj = "error" THEN R(FALSE, "cannot upload the public key", FALSE, <<describe, status, send>>)
        ELSE IF inj = "rejected" THEN R(FALSE, "unsuccessful uploaded the public key", FALSE, <<describe, status, send>>)
        ELSE R(TRUE, Nil, FALSE, <<describe, status, send>>)


\* sweepControl without the `break` on found: the loop goes on after a success
sweepControlNoBreak(found, e, i) ==
    IF e # Nil THEN [pc |-> "ret", idx |-> i, sweep |-> "Failed"]
    ELSE IF i = Len(regions)
    THEN [pc |-> "connect", idx |-> i, sweep |-> IF found THEN "Provisioned" ELSE "Exhausted"]
    ELSE [pc |-> "sweep", idx |-> i + 1, sweep |-> "Scanning"]

\* sweepControl taking an error of a partition for "not found"
sweepControlSkipError(found, e, i) ==
    IF found THEN [pc |-> "connect", idx |-> i, sweep |-> "Provisioned"]
    ELSE IF i = Len(regions) THEN [pc |-> "connect", idx |-> i, sweep |-> "Exhausted"]
    ELSE [pc |-> "sweep", idx |-> i + 1, sweep |-> "Scanning"]

\* sweepControl falling through to the connection after an error
sweepControlConnectAnyway(found, e, i) ==
    IF e # Nil THEN [pc |-> "connect", idx |-> i, sweep |-> "Failed"]
    ELSE IF found THEN [pc |-> "connect", idx |-> i, sweep |-> "Provisioned"]
    ELSE IF i = Len(regions) THEN [pc |-> "connect", idx |-> i, sweep |-> "Exhausted"]
    ELSE [pc |-> "sweep", idx |-> i + 1, sweep |-> "Scanning"]

\* sweepControl returning to main() after a success instead of connecting
sweepControlReturnOnFound(found, e, i) ==
    IF e # Nil THEN [pc |-> "ret", idx |-> i, sweep |-> "Failed"]
    ELSE IF found THEN [pc |-> "ret", idx |-> i, sweep |-> "Provisioned"]
    ELSE IF i = Len(regions) THEN [pc |-> "connect", idx |-> i, sweep |-> "Exhausted"]
    ELSE [pc |-> "sweep", idx |-> i + 1, sweep |-> "Scanning"]

\* the body of the range loop of ssh() after setupEC2Instance returned for
\* regions[i]: where the flow goes next
sweepControl(found, e, i) ==
    IF e # Nil THEN [pc |-> "ret", idx |-> i, sweep |-> "Failed"]
    ELSE IF found THEN [pc |-> "connect", idx |-> i, sweep |-> "Provisioned"]
    ELSE IF i = Len(regions) THEN [pc |-> "connect", idx |-> i, sweep |-> "Exhausted"]
    ELSE [pc |-> "sweep", idx |-> i + 1, sweep |-> "Scanning"]

\* connectToInstance without the exception for exit code 130
connectResultNoInterrupt(out) ==
    IF out.started /\ out.code = ExitOK THEN Nil
    ELSE "error while connecting to the instance"

\* the argument vector of the configuration-dump subprocess
dumpArgv(a) == <<"ssh", "-G">> \o a

\* connectToInstance handed the slice sshOptions built for the dump
connectArgvWithDumpFlag(a) == <<"ssh", "-G">> \o a

\* the argument vector of the final client subprocess
connectArgv(a) == <<"ssh">> \o a

\* the error connectToInstance returns for an outcome of cmd.Run
connectResult(out) ==
    IF out.started /\ out.code = ExitOK THEN Nil
    ELSE IF out.started /\ out.code = ExitInterrupted THEN Nil
    ELSE "error while connecting to the instance"

\* the exit code main() ends with for the error ssh() returned
mainExit(e) == IF e # Nil THEN ExitError ELSE ExitOK

-----------------------------------------------------------------------------
\* The invocation

Init ==
    /\ args \in ArgVectors
    /\ exists \in SUBSET KeyFiles
    /\ pc = "start"
    /\ dump = <<>>
    /\ options = <<>>
    /\ instance = NoInstance
    /\ pk = <<>>
    /\ publicKey = <<>>
    /\ idx = 1
    /\ sweep = "NotStarted"
    /\ results = <<>>
    /\ calls = <<>>
    /\ err = Nil
    /\ errPath = <<>>
    /\ exitCode = Running
    /\ printed = 0
    /\ clientExit = NoClient
    /\ run = 1
    /\ first = NoRun
    /\ authorized = {}

\* an error that is recorded but not returned: the flow goes on to the connection
ReturnIgnored(e) == pc' = "connect" /\ err' = e

\* ssh() returns e to main()
Return(e) == pc' = "ret" /\ err' = e

\* an index out of range: the goroutine panics, nothing recovers it
Panic == pc' = "panic" /\ exitCode' = exitCode

\* The second invocation gets from its environment the answers the first one
\* got, as far as the first one consumed them.
SameDump(d) == IF run = 1 THEN TRUE ELSE d = first.dump
SameLookup(ips) == IF run = 1 THEN TRUE ELSE ips[1] = first.ip
SameUser(userOk) == IF run = 1 THEN TRUE ELSE userOk
SameCloud(i, cfgOk, inv, st, inj) ==
    IF run = 1 \/ i > Len(first.results) THEN TRUE
    ELSE /\ cfgOk
         /\ inv = first.results[i].inv
         /\ IF first.results[i].st = NoAnswer THEN TRUE ELSE st = first.results[i].st
         /\ IF first.results[i].inj = "none" THEN TRUE ELSE inj = first.results[i].inj
SameClient(out) == IF run = 1 THEN TRUE ELSE out = first.clientExit

\* the keys an iteration of the sweep leaves on instances: the one of a
\* SendSSHPublicKey call answered with Success = true
injected(cs, inj) ==
    { <<cs[n].arg[2], cs[n].arg[3], cs[n].arg[4]>> :
        n \in { m \in 1..Len(cs) : cs[m].op = "SendSSHPublicKey" /\ inj = "success" } }

\* ssh.go:32-35 and sshOptions: run `ssh -G args...` and parse its output
SshOptions ==
    /\ pc = "start"
    /\ calls' = Append(calls, Call("exec", "", dumpArgv(args)))
    /\ \/ /\ run = 1
          /\ Return("ssh -G failed")
          /\ UNCHANGED <<dump, options>>
       \/ \E d \in Dumps :
            /\ SameDump(d)
            /\ dump' = d
            /\ options' = parseOptions(d)
            /\ pc' = "resolve"
            /\ err' = err
    /\ UNCHANGED <<run, first, authorized, errPath, args, exists, instance, pk, publicKey, idx, sweep, results,
                   exitCode, printed, clientExit>>

\* ssh.go:37-40, instanceInfoFromString and resolveIP
InstanceInfoFromString ==
    /\ pc = "resolve"
    /\ IF Lookup(options, KeyHostname) = <<>> \/ Lookup(options, KeyUser) = <<>>
       THEN /\ Panic
            /\ UNCHANGED <<instance, calls, err>>
       ELSE LET hostname == Lookup(options, KeyHostname)[1]
                user == Lookup(options, KeyUser)[1]
            IN  /\ calls' = Append(calls, Call("LookupIP", "", <<hostname>>))
                /\ \/ /\ run = 1
                      /\ Return("lookup failed")
                      /\ UNCHANGED instance
                   \/ \E ips \in LookupAnswers :
                        /\ SameLookup(ips)
                        /\ instance' = [username |-> user, host |-> hostname,
                                        ipAddress |-> ips[1]]
                        /\ pc' = "locate"
                        /\ err' = err
                /\ UNCHANGED exitCode
    /\ UNCHANGED <<run, first, authorized, errPath, args, exists, dump, options, pk, publicKey, idx, sweep,
                   results, printed, clientExit>>

\* ssh.go:42-45
ExistingKey ==
    /\ pc = "locate"
    /\ \E userOk \in BOOLEAN :
         LET r == existingKey(Lookup(options, KeyIdentityfile), exists, userOk)
         IN  /\ SameUser(userOk)
             /\ IF r.err # Nil
                THEN Return(r.err) /\ pk' = pk
                ELSE pk' = r.path /\ pc' = "readpub" /\ err' = err
    /\ UNCHANGED <<run, first, authorized, errPath, args, exists, dump, options, instance, publicKey, idx, sweep,
                   results, calls, exitCode, printed, clientExit>>

\* ssh.go:47-50, getPublicKey and readFile
GetPublicKey ==
    /\ pc = "readpub"
    /\ \/ /\ run = 1
          /\ Return(publicKeyError(pk).msg)
          /\ errPath' = publicKeyError(pk).path
          /\ UNCHANGED publicKey
       \/ /\ publicKey' = PubText(pk \o <<".pub">>)
          /\ pc' = "sweep"
          /\ UNCHANGED <<err, errPath>>
    /\ UNCHANGED <<run, first, authorized, args, exists, dump, options, instance, pk, idx, sweep,
                   results, calls, exitCode, printed, clientExit>>

\* ssh.go:52-61: one iteration of the loop over regions
SetupEC2Instance ==
    /\ pc = "sweep"
    /\ \E cfgOk \in BOOLEAN, inv \in InventoryAnswers,
          st \in StatusAnswers, inj \in InjectAnswers :
         LET r == setupEC2Instance(instance, publicKey, regions[idx],
                                   cfgOk, inv, st, inj)
             c == sweepControl(r.found, r.err, idx)
         IN  /\ SameCloud(idx, cfgOk, inv, st, inj)
             /\ calls' = calls \o r.calls
             /\ authorized' = authorized \cup injected(r.calls, inj)
             /\ IF r.panic
                THEN /\ Panic
                     /\ UNCHANGED <<idx, sweep, results, err>>
                ELSE /\ results' = Append(results,
                                  [found |-> r.found, err |-> r.err,
                                   inv |-> IF Len(r.calls) >= 1 THEN inv ELSE NoAnswer,
                                   st |-> IF Len(r.calls) >= 2 THEN st ELSE NoAnswer,
                                   inj |-> IF Len(r.calls) >= 3 THEN inj ELSE "none"])
                     /\ pc' = c.pc
                     /\ idx' = c.idx
                     /\ sweep' = c.sweep
                     /\ err' = r.err
                     /\ UNCHANGED exitCode
    /\ UNCHANGED <<run, first, errPath, args, exists, dump, options, instance, pk, publicKey,
                   printed, clientExit>>

\* ssh.go:63 and connectToInstance
ConnectToInstance ==
    /\ pc = "connect"
    /\ \E out \in ClientOutcomes :
         /\ SameClient(out)
         /\ calls' = Append(calls, Call("exec", "", connectArgv(args)))
         /\ clientExit' = out
         /\ Return(connectResult(out))
    /\ UNCHANGED <<run, first, authorized, errPath, args, exists, dump, options, instance, pk, publicKey, idx,
                   sweep, results, exitCode, printed>>

\* main.go:13-17
MainExit ==
    /\ pc = "ret"
    /\ printed' = IF err # Nil THEN printed + 1 ELSE printed
    /\ exitCode' = mainExit(err)
    /\ pc' = "done"
    /\ UNCHANGED <<run, first, authorized, errPath, args, exists, dump, options, instance, pk, publicKey, idx,
                   sweep, results, calls, err, clientExit>>

\* the Go runtime ends a process whose main goroutine panicked with status 2,
\* main() prints nothing and os.Exit(1) is not reached
PanicExit ==
    /\ pc = "panic"
    /\ exitCode' = ExitPanic
    /\ pc' = "done"
    /\ UNCHANGED <<run, first, authorized, errPath, args, exists, dump, options, instance, pk, publicKey, idx,
                   sweep, results, calls, err, printed, clientExit>>

\* main.go:9-13: the wrapper is run again with the same arguments after an
\* invocation that injected its key and succeeded. Nothing of the first
\* process is left but what it did to the instances.
Restart ==
    /\ pc = "done"
    /\ run = 1
    /\ sweep = "Provisioned"
    /\ exitCode = ExitOK
    /\ run' = 2
    /\ first' = [dump |-> dump, ip |-> instance.ipAddress, results |-> results,
                 clientExit |-> clientExit, calls |-> calls, exitCode |-> exitCode]
    /\ pc' = "start"
    /\ dump' = <<>>
    /\ options' = <<>>
    /\ instance' = NoInstance
    /\ pk' = <<>>
    /\ publicKey' = <<>>
    /\ idx' = 1
    /\ sweep' = "NotStarted"
    /\ results' = <<>>
    /\ calls' = <<>>
    /\ err' = Nil
    /\ errPath' = <<>>
    /\ exitCode' = Running
    /\ printed' = 0
    /\ clientExit' = NoClient
    /\ UNCHANGED <<args, exists, authorized>>

Next ==
    \/ SshOptions
    \/ InstanceInfoFromString
    \/ ExistingKey
    \/ GetPublicKey
    \/ SetupEC2Instance
    \/ ConnectToInstance
    \/ MainExit
    \/ PanicExit

Spec == Init /\ [][Next]_vars

FairSpec == Spec /\ WF_vars(Next)

\* one invocation, and a second one after it where the first injected its key
\* and succeeded
NextTwice ==
    \/ Next
    \/ Restart

TwiceSpec == Init /\ [][NextTwice]_vars

TypeOK ==
    /\ pc \in { "start", "resolve", "locate", "readpub", "sweep", "connect", "ret", "panic", "done" }
    /\ exitCode \in { Running, ExitOK, ExitError, ExitPanic }
    /\ idx \in 1..Len(regions)
    /\ sweep \in { "NotStarted", "Scanning", "Provisioned", "Exhausted", "Failed" }
    /\ run \in { 1, 2 }
    /\ run = 1 <=> first = NoRun

-----------------------------------------------------------------------------
\* Properties

CallsOf(op) == SelectSeq(calls, LAMBDA c : c.op = op)

\* the partitions the inventory query was sent to, in order
Queried == [i \in 1..Len(CallsOf("DescribeInstances")) |->
              CallsOf("DescribeInstances")[i].region]

\* the final client has been spawned with the original arguments
Connected == \E i \in 1..Len(calls) :
                calls[i].op = "exec" /\ calls[i].arg = <<"ssh">> \o args

\* C1: the sweep queries the partitions of `regions` in declared order, none
\* twice, and none after the partition in which setupEC2Instance reported found.
C1_SweepOrder ==
    /\ Queried = SubSeq(regions, 1, Len(Queried))
    /\ \A i \in 1..Len(results) : results[i].found => Len(Queried) = i

C1_Witness ==
    /\ pc = "done"
    /\ Queried = regions
    /\ Len(results) = 2 /\ ~results[1].found /\ results[2].found

\* C2: a hard error of setupEC2Instance for partition i ends the sweep in
\* Failed: ssh() returns that error and no partition after i is queried.
C2_HardErrorAborts ==
    \A i \in 1..Len(results) :
        results[i].err # Nil =>
            /\ sweep = "Failed"
            /\ Len(results) = i
            /\ Len(Queried) <= i
            /\ pc \in { "ret", "done" }
            /\ err = results[i].err

C2_Witness ==
    /\ pc = "done"
    /\ Len(results) = 1
    /\ results[1].err = "cannot contact with AWS API"
    /\ Queried = <<regions[1]>>

\* C3: the final client is spawned if and only if the sweep ended in Exhausted
\* or in Provisioned; after a sweep that ended in Failed it is never spawned.
C3_ConnectIffSweepOk ==
    /\ Connected => sweep \in { "Exhausted", "Provisioned" }
    /\ sweep = "Failed" => ~Connected
    /\ pc \in { "ret", "done" } /\ sweep \in { "Exhausted", "Provisioned" } => Connected

C3_Witness ==
    /\ pc = "done"
    /\ sweep = "Exhausted"
    /\ Connected

\* C4 as stated: whatever the outcome of a sweep that started, the wrapper
\* attempts the connection before it ends.
C4_AlwaysConnects ==
    pc = "done" /\ sweep \in { "Provisioned", "Exhausted", "Failed" } => Connected

\* C4, amended: a sweep that ended in Provisioned or Exhausted is followed by
\* the connection attempt; a sweep that ended in Failed never is.
C4_ConnectsUnlessFailed ==
    /\ (sweep \in { "Provisioned", "Exhausted" }) ~> Connected
    /\ [](Len(results) > 0 /\ results[Len(results)].err # Nil => ~Connected)

C4_Witness ==
    /\ sweep = "Provisioned"
    /\ Connected
    /\ pc = "done"

\* C5: within one invocation SendSSHPublicKey is issued at most once, over all
\* partitions and instances.
C5_AtMostOneInjection ==
    Len(CallsOf("SendSSHPublicKey")) <= 1

C5_Witness ==
    /\ pc = "done"
    /\ Len(CallsOf("SendSSHPublicKey")) = 1
    /\ results[Len(results)].err = "cannot upload the public key"

\* the lines of the dump whose key is `key`, and their values in order
LinesOf(key) == SelectSeq(dump, LAMBDA l : SubSeq(l, 1, Len(key)) = key)
ValuesOf(key) == [i \in 1..Len(LinesOf(key)) |->
                    SubSeq(LinesOf(key)[i], Len(key) + 2, Len(LinesOf(key)[i]))]

\* sshOptions has returned the map
Parsed == pc \notin { "start" } /\ ~(pc \in { "ret", "done" } /\ err = "ssh -G failed")

\* C6: a key that occurs n >= 2 times in the dump is mapped to the n values of
\* its lines, in their order of appearance.
C6_DuplicatesPreserved ==
    Parsed =>
        \A key \in { KeyUser, KeyHostname, KeyIdentityfile } :
            Len(LinesOf(key)) >= 2 => Lookup(options, key) = ValuesOf(key)

\* C7: when `hostname` and `user` each appear on exactly one line, the map holds
\* their values and the ConnectionTarget is created with them.
C7_SingleHostnameAndUser ==
    Parsed /\ Len(LinesOf(KeyHostname)) = 1 /\ Len(LinesOf(KeyUser)) = 1 =>
        /\ Lookup(options, KeyHostname) = ValuesOf(KeyHostname)
        /\ Lookup(options, KeyUser) = ValuesOf(KeyUser)
        /\ pc # "panic"
        /\ pc \in { "locate", "readpub", "sweep", "connect" } =>
              /\ instance.host = ValuesOf(KeyHostname)[1]
              /\ instance.username = ValuesOf(KeyUser)[1]

\* the home-directory expansion of a candidate path
Expanded(path) == IF path # <<>> /\ path[1] = "~" THEN HomeDir \o Tail(path) ELSE path

\* no credential file exists at any candidate path of the dump
NoCredential ==
    Parsed /\ \A i \in 1..Len(ValuesOf(KeyIdentityfile)) :
                 Expanded(ValuesOf(KeyIdentityfile)[i]) \notin exists

NoCloudCall ==
    \A i \in 1..Len(calls) :
        calls[i].op \notin { "DescribeInstances", "DescribeInstanceStatus", "SendSSHPublicKey" }

NoNetworkCall == \A i \in 1..Len(calls) : calls[i].op # "LookupIP"

\* C8 as stated: without a credential file the invocation ends with exit code 1
\* and makes no hostname resolution and no cloud call.
C8_NoCredentialNoNetwork ==
    NoCredential =>
        /\ NoNetworkCall
        /\ NoCloudCall
        /\ pc = "done" => exitCode = ExitError

\* C8, amended: without a credential file no cloud call is made and the final
\* client is not spawned, and an invocation that got to the credential locator
\* ends with exit code 1; the hostname resolution happens before the locator.
C8_NoCredentialNoCloud ==
    NoCredential =>
        /\ NoCloudCall
        /\ ~Connected
        /\ pc \notin { "readpub", "sweep", "connect" }
        /\ pc = "done" /\ instance # NoInstance =>
              exitCode = ExitError /\ ~NoNetworkCall

C8_Witness ==
    /\ NoCredential
    /\ Len(Lookup(options, KeyIdentityfile)) >= 1
    /\ pc = "done"
    /\ err = "cannot find any ssh key"
    /\ exitCode = ExitError
    /\ ~NoNetworkCall

\* C9: every invocation ends with exit code 0 or 1: 0 exactly when no stage
\* failed and the client exited with 0 or 130, and 1 with one printed message
\* for a failure at any stage.
C9_ExitZeroOrOne ==
    pc = "done" =>
        /\ exitCode \in { ExitOK, ExitError }
        /\ exitCode = ExitOK <=>
              clientExit.started /\ clientExit.code \in { ExitOK, ExitInterrupted }
        /\ exitCode = ExitError => printed = 1

\* the run of the end-to-end scenario: no match in the first partition, a
\* successful injection in the second, and the final client has run
FoundInSecond ==
    /\ pc = "done"
    /\ Len(results) = 2
    /\ ~results[1].found /\ results[1].err = Nil
    /\ results[2].found
    /\ clientExit.started

\* C10 as stated: in that run the process exit code is the client's exit code.
C10_ExitCodeOfClient ==
    FoundInSecond =>
        /\ calls[Len(calls)] = Call("exec", "", <<"ssh">> \o args)
        /\ exitCode = clientExit.code

\* C10, amended: in that run the last action is spawning the client with the
\* original arguments, and the process exits with 0 when the client exits with
\* 0 or 130 and with 1 for any other exit code of the client.
C10_ExitCodeFromClient ==
    FoundInSecond =>
        /\ calls[Len(calls)] = Call("exec", "", <<"ssh">> \o args)
        /\ exitCode = IF clientExit.code \in { ExitOK, ExitInterrupted }
                      THEN ExitOK ELSE ExitError

C10_Witness ==
    /\ FoundInSecond
    /\ clientExit.code = ExitInterrupted
    /\ exitCode = ExitOK

\* C11: the argument vector is never modified: the dump subprocess gets `-G`
\* followed by the original arguments, the final client gets exactly the
\* original arguments, also after the dump and the sweep have run.
C11_ArgumentsUnmodified ==
    \A i \in 1..Len(calls) :
        calls[i].op = "exec" =>
            IF i = 1 THEN calls[i].arg = <<"ssh", "-G">> \o args
            ELSE /\ i = Len(calls)
                 /\ calls[i].arg = <<"ssh">> \o args
                 /\ calls[1].arg = <<"ssh", "-G">> \o args

C11_Witness ==
    /\ pc = "done"
    /\ Len(args) = 3
    /\ Len(CallsOf("exec")) = 2
    /\ Len(CallsOf("SendSSHPublicKey")) = 1

\* C12: a failure of the configuration dump or of the hostname resolution is
\* returned by ssh() and ends the flow: no cloud call, no final client, and
\* after a dump failure no hostname resolution either.
C12_EarlyFailureStops ==
    /\ err = "ssh -G failed" =>
          /\ pc \in { "ret", "done" }
          /\ Len(calls) = 1
          /\ NoNetworkCall /\ NoCloudCall /\ ~Connected
    /\ err = "lookup failed" =>
          /\ pc \in { "ret", "done" }
          /\ calls[Len(calls)].op = "LookupIP"
          /\ NoCloudCall /\ ~Connected
    /\ pc = "done" /\ err \in { "ssh -G failed", "lookup failed" } =>
          exitCode = ExitError

C12_Witness ==
    /\ pc = "done"
    /\ err = "lookup failed"
    /\ exitCode = ExitError
    /\ ~NoNetworkCall

\* C13: setupEC2Instance reports found only when SendSSHPublicKey returned
\* without error and with Success = true; an error, or Success = false, gives
\* a hard error and never found.
C13_SuccessNeedsFlag ==
    /\ \A i \in 1..Len(results) :
          /\ results[i].found => results[i].inj = "success" /\ results[i].err = Nil
          /\ results[i].inj = "error" =>
                ~results[i].found /\ results[i].err = "cannot upload the public key"
          /\ results[i].inj = "rejected" =>
                ~results[i].found /\ results[i].err = "unsuccessful uploaded the public key"
    /\ sweep = "Provisioned" => results[Len(results)].inj = "success"

C13_Witness ==
    /\ pc = "done"
    /\ sweep = "Failed"
    /\ results[Len(results)].inj = "rejected"
    /\ exitCode = ExitError

\* C14: every SendSSHPublicKey call targets an instance of the inventory answer
\* of its partition whose private address is the resolved address, with the
\* zone of the first status entry asked for that instance ID, the configured
\* remote user and the text of the located key's `.pub` file.
C14_InjectionTarget ==
    \A n \in 1..Len(calls) :
        calls[n].op = "SendSSHPublicKey" =>
            \E i \in 1..Len(results) :
                /\ regions[i] = calls[n].region
                /\ results[i].inv.ok
                /\ \E k \in 1..Len(results[i].inv.v) :
                      /\ results[i].inv.v[k].InstanceId = calls[n].arg[2]
                      /\ results[i].inv.v[k].PrivateIpAddress = instance.ipAddress
                /\ calls[n - 1] = Call("DescribeInstanceStatus", regions[i], <<calls[n].arg[2]>>)
                /\ results[i].st.ok
                /\ calls[n].arg[1] = results[i].st.v[1]
                /\ calls[n].arg[3] = Lookup(options, KeyUser)[1]
                /\ calls[n].arg[4] = PubText(pk \o <<".pub">>)
                /\ pk \in exists

C14_Witness ==
    /\ pc = "done"
    /\ instance.ipAddress = "10.0.0.5"
    /\ Len(results) = 2
    /\ results[2].inv.v = <<I456, I123>>
    /\ results[2].st.v = <<"zone-b", "zone-a">>
    /\ \E n \in 1..Len(calls) :
          /\ calls[n].op = "SendSSHPublicKey"
          /\ calls[n].arg[1] = "zone-b"
          /\ calls[n].arg[2] = "i-123"

\* existingKey has been called and has returned
LocatorRan == instance # NoInstance /\ pc # "locate"

\* the candidates handed to existingKey
Candidates == Lookup(options, KeyIdentityfile)

HasTilde(path) == path # <<>> /\ path[1] = "~"

NoneExists == \A i \in 1..Len(Candidates) : Expanded(Candidates[i]) \notin exists

\* Candidates[i] is the first candidate that exists
FirstExisting(i) ==
    /\ Expanded(Candidates[i]) \in exists
    /\ \A j \in 1..(i - 1) : Expanded(Candidates[j]) \notin exists

PublicHalfUnreadable == pk # <<>> /\ publicKey = <<>> /\ pc \in { "ret", "done" }

ReachedSweep == publicKey # <<>>

\* C17: for every answer of the status query without a transport error, also
\* one with no status entry, the provisioner goes on to the injection call or
\* returns a hard error; the invocation never ends abnormally.
C17_StatusAnswerHandled ==
    \A n \in 1..Len(calls) :
        calls[n].op = "DescribeInstanceStatus" =>
            /\ pc \notin { "panic" }
            /\ exitCode # ExitPanic
            /\ \/ n < Len(calls) /\ calls[n + 1].op = "SendSSHPublicKey"
               \/ sweep = "Failed" /\ err = "cannot get the instance status"

\* C18: an invocation that reaches the sweep ends it in exactly one of
\* Provisioned, Exhausted, Failed after at most |regions| inventory queries;
\* Exhausted exactly when every partition answered "no match", and then
\* without any status query or injection call.
C18_SweepTerminates ==
    /\ Len(Queried) <= Len(regions)
    /\ pc = "done" /\ ReachedSweep =>
          /\ sweep \in { "Provisioned", "Exhausted", "Failed" }
          /\ sweep = "Exhausted" <=>
                /\ Len(results) = Len(regions)
                /\ \A i \in 1..Len(results) : ~results[i].found /\ results[i].err = Nil
          /\ sweep = "Exhausted" =>
                /\ CallsOf("DescribeInstanceStatus") = <<>>
                /\ CallsOf("SendSSHPublicKey") = <<>>

\* the injection calls of a log of external calls, as the keys they leave
KeysOf(cs) ==
    { <<cs[n].arg[2], cs[n].arg[3], cs[n].arg[4]>> :
        n \in { m \in 1..Len(cs) : cs[m].op = "SendSSHPublicKey" } }

====
